---- MODULE Spec2Model ----
(***************************************************************************)
(* openage: src/openage/init.cpp.  init() is a straight-line start-up      *)
(* routine with two loops; destroy() is its teardown.  The body of init()  *)
(* is kept as the instruction list InitCode (one entry per statement, with *)
(* its source line) and one action per kind of statement executes the      *)
(* entry at the program counter.  Collaborators whose code lives in        *)
(* engine/ (Terrain, shader::Shader, shader::Program, read_csv_file,       *)
(* read_whole_file, Texture) are modelled at their interface.              *)
(***************************************************************************)
EXTENDS Integers, Sequences, FiniteSets, TLC

(* ---------------------------------------------------------------------- *)
(* Program constants                                                      *)
(* ---------------------------------------------------------------------- *)

\* Terrain(20, ...): side length of the grid, and of terrain_data
TerrainSize == 20

\* glUniform4fv(player_color_var, 64, playercolors): slots of the table
PlayerColorSlots == 64

\* unsigned int blend_mode_count = 9
blend_mode_count == 9

\* divisor of the channel normalisation, line->r / 255.0
ChannelMax == 255

(* ---------------------------------------------------------------------- *)
(* Bounds of the model                                                    *)
(* ---------------------------------------------------------------------- *)

\* largest terrain-type count terrain_meta may hold
MaxTType == 21

\* largest blending-mode count blending_meta may hold
MaxBMode == 10

\* longest freely chosen head of the palette file
MaxPal == 2

\* most terrain types whose blend priorities are drawn freely
MaxPrioTypes == 4

\* largest blend_priority drawn
MaxPrio == 2

(* ---------------------------------------------------------------------- *)
(* Static data                                                            *)
(* ---------------------------------------------------------------------- *)

\* unsigned int terrain_data[20][20]
terrain_data ==
  << <<  7,  7,  7,  7,  7,  7,  7,  7,  7,  7,  7,  7,  7,  7,  7,  7,  7,  7,  7,  7 >>,
     <<  7,  7,  7,  7,  7,  7,  7,  7,  7,  7,  7,  7,  7,  7,  7,  7,  7,  7,  7,  7 >>,
     <<  7,  7,  7,  7,  7,  7,  7,  7,  7,  7,  7,  7,  7,  7,  7,  7,  7,  7,  7,  7 >>,
     <<  7,  7,  7,  7,  7,  7,  7,  7,  7,  7,  7,  7, 11, 11, 11,  7,  7,  7,  7,  7 >>,
     <<  7,  7,  7,  7,  7,  7,  7,  7,  7,  7,  7,  7, 11, 11, 11, 11, 11,  7,  7,  7 >>,
     <<  7,  7, 20, 20, 20,  7,  7,  7,  7,  7,  7,  7, 11, 11, 11, 11, 11, 11,  7,  7 >>,
     <<  7,  7, 20,  7,  7, 20, 20,  7,  7,  7,  7,  7, 11, 11, 11, 11, 11,  7,  7,  7 >>,
     <<  7,  7, 20,  7,  7,  7,  7,  7,  7,  7,  7,  7, 11, 11, 11,  7,  7,  7,  7,  7 >>,
     <<  7, 20, 20, 20,  7,  7,  7,  7,  7,  7,  7,  7,  7,  7,  7,  7,  7,  7,  7,  7 >>,
     <<  7,  7, 20,  7,  7,  7,  7,  7,  7,  7,  7,  7,  7,  7,  7,  7,  7,  7,  7,  7 >>,
     <<  7,  7, 20,  7,  7,  7,  9,  9,  7,  7,  7,  7,  7,  7,  7,  7,  7,  7,  7,  7 >>,
     <<  7,  7,  7,  7,  7,  7,  9,  9,  7,  7,  7,  7,  7,  7,  7,  7,  7,  7,  7,  7 >>,
     <<  7,  7,  7,  7, 13,  7,  9,  7,  7, 12, 12,  7,  7,  7,  7,  7,  7,  7,  7,  7 >>,
     <<  7,  7,  7,  7, 13,  9,  9,  7, 12,  7,  7,  7,  7,  7,  7,  7,  7,  7,  7,  7 >>,
     <<  7,  7,  7,  7, 13,  7,  7,  7, 12,  7,  7,  7,  7, 17, 17, 17,  7,  7,  7,  7 >>,
     <<  7,  7,  7,  7, 13,  7,  7,  7, 12,  7,  7,  7,  7, 18, 18, 18,  7,  7,  7,  7 >>,
     <<  7,  7, 12, 12, 12, 12, 12, 12, 12,  7,  7,  7,  7, 19, 19, 19,  7,  7,  7,  7 >>,
     <<  7,  7,  7,  7,  7,  7,  7,  7,  7,  7,  7,  7,  7,  3,  3,  3,  7,  7,  7,  7 >>,
     <<  7,  7,  7,  7,  7,  7,  7,  7,  7,  7,  7,  7,  7,  3,  3,  3,  3, 14, 14,  7 >>,
     <<  7,  7,  7,  7,  7,  7,  7,  7,  7,  7,  7,  7,  7,  7,  7,  3,  3,  7,  7,  7 >> >>

\* the two standalone textures
Textures == {"gaben", "university"}

\* the five shader objects of init()
ShaderUnits == {"plaintexture_vert", "plaintexture_frag", "teamcolor_frag",
                "alphamask_vert", "alphamask_frag"}

\* the three programs: texture_shader, teamcolor_shader, alphamask_shader
Programs == {"texture_shader", "teamcolor_shader", "alphamask_shader"}

\* the four engine callback lists
CallbackRoles == {"on_input", "on_engine_tick", "on_drawgame", "on_drawhud"}

\* one statement of init(): operation, its arguments, its source line
Ins(op, a, b, line) == [op |-> op, a |-> a, b |-> b, line |-> line]

\* gaben = new Texture(...); university = new Texture(...)
TextureCode ==
  << Ins("new_texture",   "gaben",      "", 53),
     Ins("new_texture",   "university", "", 58) >>

\* the two read_csv_file calls for terrain and blending metadata
MetaCode ==
  << Ins("read_terrain_meta",  "", "", 61),
     Ins("read_blending_meta", "", "", 64) >>

\* terrain = new Terrain(...) and the loop over terrain_data
GridCode ==
  << Ins("new_terrain",   "", "", 66),
     Ins("pos_init",      "", "", 71),
     Ins("set_tiles",     "", "", 72) >>

\* the palette: read_csv_file, new GLfloat[], the conversion loop
ColorCode ==
  << Ins("read_palette",  "", "", 105),
     Ins("new_colors",    "", "", 107),
     Ins("convert_colors", "", "", 108) >>

\* read, compile and free the five shader sources
CompileCode ==
  << Ins("read_source",   "plaintexture_vert", "", 120),
     Ins("new_shader",    "plaintexture_vert", "", 121),
     Ins("delete_source", "plaintexture_vert", "", 122),
     Ins("read_source",   "plaintexture_frag", "", 124),
     Ins("new_shader",    "plaintexture_frag", "", 125),
     Ins("delete_source", "plaintexture_frag", "", 126),
     Ins("read_source",   "teamcolor_frag", "", 128),
     Ins("new_shader",    "teamcolor_frag", "", 129),
     Ins("delete_source", "teamcolor_frag", "", 130),
     Ins("read_source",   "alphamask_vert", "", 132),
     Ins("new_shader",    "alphamask_vert", "", 133),
     Ins("delete_source", "alphamask_vert", "", 134),
     Ins("read_source",   "alphamask_frag", "", 136),
     Ins("new_shader",    "alphamask_frag", "", 137),
     Ins("delete_source", "alphamask_frag", "", 138) >>

\* texture_shader with its handles looked up before link()
TextureProgramCodeResolveBeforeLink ==
  << Ins("new_program",   "texture_shader", <<"plaintexture_vert", "plaintexture_frag">>, 143),
     Ins("get_id",        "texture_shader", "texture_shader::texture", 145),
     Ins("get_id",        "texture_shader", "texture_shader::tex_coord", 146),
     Ins("link",          "texture_shader", "", 144),
     Ins("use",           "texture_shader", "", 147),
     Ins("uniform",       "texture_shader::texture", <<0>>, 148),
     Ins("stopusing",     "texture_shader", "", 149) >>

\* texture_shader: create, link, resolve, seed
TextureProgramCode ==
  << Ins("new_program",   "texture_shader", <<"plaintexture_vert", "plaintexture_frag">>, 143),
     Ins("link",          "texture_shader", "", 144),
     Ins("get_id",        "texture_shader", "texture_shader::texture", 145),
     Ins("get_id",        "texture_shader", "texture_shader::tex_coord", 146),
     Ins("use",           "texture_shader", "", 147),
     Ins("uniform",       "texture_shader::texture", <<0>>, 148),
     Ins("stopusing",     "texture_shader", "", 149) >>

\* teamcolor_shader: create, link, resolve, seed, free the colors
\* the colour buffer freed before the upload that reads it
TeamcolorProgramCodeFreeBeforeUpload ==
  << Ins("new_program",   "teamcolor_shader", <<"plaintexture_vert", "teamcolor_frag">>, 154),
     Ins("link",          "teamcolor_shader", "", 155),
     Ins("get_id",        "teamcolor_shader", "teamcolor_shader::texture", 156),
     Ins("get_id",        "teamcolor_shader", "teamcolor_shader::tex_coord", 157),
     Ins("get_id",        "teamcolor_shader", "teamcolor_shader::player_id_var", 158),
     Ins("get_id",        "teamcolor_shader", "teamcolor_shader::alpha_marker_var", 159),
     Ins("get_id",        "teamcolor_shader", "teamcolor_shader::player_color_var", 160),
     Ins("use",           "teamcolor_shader", "", 161),
     Ins("uniform",       "teamcolor_shader::texture", <<0>>, 162),
     Ins("uniform",       "teamcolor_shader::alpha_marker_var", <<254, 255>>, 163),
     Ins("delete_colors", "", "", 167),
     Ins("uniform_colors", "teamcolor_shader::player_color_var", "", 165),
     Ins("stopusing",     "teamcolor_shader", "", 166) >>

TeamcolorProgramCode ==
  << Ins("new_program",   "teamcolor_shader", <<"plaintexture_vert", "teamcolor_frag">>, 154),
     Ins("link",          "teamcolor_shader", "", 155),
     Ins("get_id",        "teamcolor_shader", "teamcolor_shader::texture", 156),
     Ins("get_id",        "teamcolor_shader", "teamcolor_shader::tex_coord", 157),
     Ins("get_id",        "teamcolor_shader", "teamcolor_shader::player_id_var", 158),
     Ins("get_id",        "teamcolor_shader", "teamcolor_shader::alpha_marker_var", 159),
     Ins("get_id",        "teamcolor_shader", "teamcolor_shader::player_color_var", 160),
     Ins("use",           "teamcolor_shader", "", 161),
     Ins("uniform",       "teamcolor_shader::texture", <<0>>, 162),
     Ins("uniform",       "teamcolor_shader::alpha_marker_var", <<254, 255>>, 163),
     Ins("uniform_colors", "teamcolor_shader::player_color_var", "", 165),
     Ins("stopusing",     "teamcolor_shader", "", 166),
     Ins("delete_colors", "", "", 167) >>

\* alphamask_shader seeded without use(): stopusing() of the program before
\* has left no program in use
AlphamaskProgramCodeNoUse ==
  << Ins("new_program",   "alphamask_shader", <<"alphamask_vert", "alphamask_frag">>, 171),
     Ins("link",          "alphamask_shader", "", 172),
     Ins("get_id",        "alphamask_shader", "alphamask_shader::base_coord", 173),
     Ins("get_id",        "alphamask_shader", "alphamask_shader::mask_coord", 174),
     Ins("get_id",        "alphamask_shader", "alphamask_shader::show_mask", 175),
     Ins("get_id",        "alphamask_shader", "alphamask_shader::base_texture", 176),
     Ins("get_id",        "alphamask_shader", "alphamask_shader::mask_texture", 177),
     Ins("uniform",       "alphamask_shader::base_texture", <<0>>, 179),
     Ins("uniform",       "alphamask_shader::mask_texture", <<1>>, 180),
     Ins("stopusing",     "alphamask_shader", "", 181) >>

\* alphamask_shader: create, link, resolve, seed
AlphamaskProgramCode ==
  << Ins("new_program",   "alphamask_shader", <<"alphamask_vert", "alphamask_frag">>, 171),
     Ins("link",          "alphamask_shader", "", 172),
     Ins("get_id",        "alphamask_shader", "alphamask_shader::base_coord", 173),
     Ins("get_id",        "alphamask_shader", "alphamask_shader::mask_coord", 174),
     Ins("get_id",        "alphamask_shader", "alphamask_shader::show_mask", 175),
     Ins("get_id",        "alphamask_shader", "alphamask_shader::base_texture", 176),
     Ins("get_id",        "alphamask_shader", "alphamask_shader::mask_texture", 177),
     Ins("use",           "alphamask_shader", "", 178),
     Ins("uniform",       "alphamask_shader::base_texture", <<0>>, 179),
     Ins("uniform",       "alphamask_shader::mask_texture", <<1>>, 180),
     Ins("stopusing",     "alphamask_shader", "", 181) >>

\* after linking, the shaders are no longer necessary
ReleaseCode ==
  << Ins("delete_shader", "plaintexture_vert", "", 184),
     Ins("delete_shader", "plaintexture_frag", "", 185),
     Ins("delete_shader", "teamcolor_frag", "", 186),
     Ins("delete_shader", "alphamask_vert", "", 187),
     Ins("delete_shader", "alphamask_frag", "", 188) >>

\* setup engine callback methods
CallbackCode ==
  << Ins("push_back",     "on_input", "", 191),
     Ins("push_back",     "on_engine_tick", "", 192),
     Ins("push_back",     "on_drawgame", "", 193),
     Ins("push_back",     "on_drawhud", "", 194) >>

\* the shaders deleted once the first program is linked
ShaderCodeReleaseAfterFirstProgram ==
  CompileCode \o TextureProgramCode \o ReleaseCode \o TeamcolorProgramCode
    \o AlphamaskProgramCode

\* shader initialisation, lines 117 to 188
ShaderCode ==
  CompileCode \o TextureProgramCode \o TeamcolorProgramCode
    \o AlphamaskProgramCode \o ReleaseCode

\* init() with the callbacks registered before the shaders are set up
InitCodeCallbacksFirst ==
  TextureCode \o MetaCode \o GridCode \o ColorCode \o CallbackCode \o ShaderCode

\* the body of init(), statement by statement
InitCode ==
  TextureCode \o MetaCode \o GridCode \o ColorCode \o ShaderCode \o CallbackCode

\* the handle variables init() assigns (texture_shader::texture, ...)
Handles == {InitCode[i].b : i \in {j \in DOMAIN InitCode : InitCode[j].op = "get_id"}}

\* the shader objects a program is built from: new shader::Program(vert, frag)
StageTable ==
  [p \in Programs |->
     UNION {{InitCode[i].b[1], InitCode[i].b[2]} :
              i \in {j \in DOMAIN InitCode :
                       InitCode[j].op = "new_program" /\ InitCode[j].a = p}}]

StagesOf(p) == StageTable[p]

\* the program a handle variable belongs to (the namespace it is declared in)
OwnerTable ==
  [h \in Handles |->
     CHOOSE p \in Programs :
       \E i \in DOMAIN InitCode :
         InitCode[i].op = "get_id" /\ InitCode[i].a = p /\ InitCode[i].b = h]

OwnerOf(h) == OwnerTable[h]

\* the uniforms init() uploads a constant to, per program
SeedTable ==
  [p \in Programs |->
     {InitCode[i].a : i \in {j \in DOMAIN InitCode :
                               InitCode[j].op \in {"uniform", "uniform_colors"}
                               /\ OwnerOf(InitCode[j].a) = p}}]

SeedsOf(p) == SeedTable[p]

(* ---------------------------------------------------------------------- *)
(* Inputs: the files init() reads                                         *)
(* ---------------------------------------------------------------------- *)

\* player_color_line after fill(): "%u=%u,%u,%u,%u" into idx, r, g, b, a
player_color_line(idx, c) == [idx |-> idx, r |-> c[1], g |-> c[2], b |-> c[3], a |-> c[4]]

\* the lines a palette head is made of: two indexes in range, with different
\* colors, and the first index out of range
PalLines ==
  {player_color_line(0, <<10, 20, 30, 255>>),
   player_color_line(1, <<0, 0, 0, 0>>),
   player_color_line(PlayerColorSlots, <<10, 20, 30, 255>>)}

\* a well-formed line for file position k (counted from 0): index = position
FillerLine(k) == player_color_line(k, <<1, 2, 3, 4>>)

\* a palette file: a free head, then filler lines up to n lines in all
PadTo(head, n) ==
  [k \in 1..(IF Len(head) > n THEN Len(head) ELSE n) |->
     IF k <= Len(head) THEN head[k] ELSE FillerLine(k - 1)]

\* the palette files read_csv_file may return: short ones, full ones (64),
\* and ones with a line more than the table has slots
PaletteFiles ==
  {PadTo(head, n) : head \in UNION {[1..m -> PalLines] : m \in 0..MaxPal},
                    n \in {0, PlayerColorSlots, PlayerColorSlots + 1}}

\* what a read past the end of a heap buffer may yield
Garbage == {<<0, ChannelMax>>, <<-1, 1>>}

(* ---------------------------------------------------------------------- *)
(* State                                                                  *)
(* ---------------------------------------------------------------------- *)

VARIABLES
  pc,                \* index into InitCode of the next statement of init()
  status,            \* "running", "done" (init returned), "failed" (error raised)
  error,             \* the error that ended init(), "" if none
  textures,          \* gaben, university: "none" / "live"
  ttype_count,       \* size_t ttype_count, -1 before the load
  bmode_count,       \* size_t bmode_count, -1 before the load
  terrain,           \* TRUE once terrain = new Terrain(...)
  tiles,             \* the grid's cells, row-major, Unset until set_tile
  pos,               \* coord::tile pos = <<ne, se>>
  player_color_file, \* the lines read_csv_file returned
  pcolor_count,      \* size_t pcolor_count
  colorbuf,          \* GLfloat *playercolors: "none" / "live" / "deleted"
  playercolors,      \* the floats of the buffer
  sources,           \* the five char* source texts: "none" / "live" / "deleted"
  shaders,           \* the five shader::Shader: "none" / "live" / "deleted"
  shader_deletes,    \* how often each shader::Shader was deleted
  programs,          \* per program the <<vert, frag>> it was built from, <<>> if none
  linked,            \* per program: link() has succeeded
  handles,           \* per handle variable the program it was resolved against
  current,           \* the program in use (glUseProgram), "none" if none
  uploads,           \* the glUniform* calls so far: handle, target program, value
  color_table,       \* the 64 slots uploaded by glUniform4fv, <<>> before
  callbacks,         \* per engine callback list its number of entries
  sweep_calls,       \* how many set_tile calls the loop of init() has made
  buffer_deletes,    \* how often each transient buffer was delete[]d
  released,          \* what destroy() has deleted so far, in order
  terrain_texture_count, \* the global read by destroy(), -1 until it is read
  blend_priority,    \* the blend_priority column of the terrain-type table
  terrain_priority_list  \* int *terrain_priority_list, <<>> while null

ctl      == <<pc, status, error>>
texvars  == <<textures>>
metavars == <<ttype_count, bmode_count>>
gridvars == <<terrain, tiles, pos>>
colvars  == <<player_color_file, pcolor_count, colorbuf, playercolors>>
srcvars  == <<sources>>
shvars   == <<shaders, shader_deletes>>
progvars == <<programs, linked, handles>>
glvars   == <<current, uploads, color_table>>
cbvars   == <<callbacks>>
histvars == <<sweep_calls, buffer_deletes>>
dvars    == <<released, terrain_texture_count>>
priovars == <<blend_priority, terrain_priority_list>>
vars == <<ctl, texvars, metavars, gridvars, colvars, srcvars, shvars, progvars,
          glvars, cbvars, histvars, dvars, priovars>>

\* the transient buffers of init(): the five source texts and playercolors
Buffers == ShaderUnits \cup {"playercolors"}

\* a cell no set_tile has written yet
Unset == -1

Cells == 0..(TerrainSize * TerrainSize - 1)

Init ==
  /\ pc = 1
  /\ status = "running"
  /\ error = ""
  /\ textures = [t \in Textures |-> "none"]
  /\ ttype_count = -1
  /\ bmode_count = -1
  /\ terrain = FALSE
  /\ tiles = [c \in Cells |-> Unset]
  /\ pos = <<0, 0>>
  /\ player_color_file = <<>>
  /\ pcolor_count = 0
  /\ colorbuf = "none"
  /\ playercolors = <<>>
  /\ sources = [u \in ShaderUnits |-> "none"]
  /\ shaders = [u \in ShaderUnits |-> "none"]
  /\ shader_deletes = [u \in ShaderUnits |-> 0]
  /\ programs = [p \in Programs |-> <<>>]
  /\ linked = [p \in Programs |-> FALSE]
  /\ handles = [h \in Handles |-> "unset"]
  /\ current = "none"
  /\ uploads = {}
  /\ color_table = <<>>
  /\ callbacks = [r \in CallbackRoles |-> 0]
  /\ sweep_calls = 0
  /\ buffer_deletes = [b \in Buffers |-> 0]
  /\ released = <<>>
  /\ terrain_texture_count = -1
  /\ blend_priority = <<>>
  /\ terrain_priority_list = <<>>

(* ---------------------------------------------------------------------- *)
(* Control                                                                *)
(* ---------------------------------------------------------------------- *)

\* the statement at the program counter is an `op`
At(op) == status = "running" /\ pc \in DOMAIN InitCode /\ InitCode[pc].op = op

Cur == InitCode[pc]

\* fall through to the next statement; after the last one init() returns
Advance ==
  /\ pc' = pc + 1
  /\ status' = IF pc + 1 > Len(InitCode) THEN "done" ELSE "running"
  /\ error' = error

\* an error leaves init(): nothing in init() catches it, nothing after runs
Raise(e) ==
  /\ status' = "failed"
  /\ error' = e
  /\ pc' = pc
\* the error propagates out of init() with the state as it is
Throw(e) ==
  /\ Raise(e)
  /\ UNCHANGED <<texvars, metavars, gridvars, colvars, srcvars, shvars, progvars,
                 glvars, cbvars,
                 histvars, dvars, priovars>>

(* ---------------------------------------------------------------------- *)
(* Collaborators (engine/), at their interface                            *)
(* ---------------------------------------------------------------------- *)

\* set_tile storing the id before it checks it
set_tile_unchecked_store(grid, count, p, id) ==
  [ok   |-> id \in 0..(count - 1),
   grid |-> [grid EXCEPT ![p[1] * TerrainSize + p[2]] = id]]

\* Terrain::set_tile(pos, id): InvalidTerrainId unless id is in the loaded table
set_tile(grid, count, p, id) ==
  IF id \in 0..(count - 1)
    THEN [ok |-> TRUE,  grid |-> [grid EXCEPT ![p[1] * TerrainSize + p[2]] = id]]
    ELSE [ok |-> FALSE, grid |-> grid]

\* glUniform4fv(location, count, ptr): count vec4 slots read from ptr; a float
\* past the end of the buffer reads as g
uniform4fv(count, buf, g) ==
  [s \in 1..count |->
     [c \in 1..4 |->
        LET j == 4 * (s - 1) + c
        IN  IF j <= Len(buf) THEN buf[j] ELSE g]]

(* ---------------------------------------------------------------------- *)
(* The statements of init()                                               *)
(* ---------------------------------------------------------------------- *)

\* gaben = new Texture(...); university = new Texture(...)
NewTexture ==
  /\ At("new_texture")
  /\ \/ /\ textures' = [textures EXCEPT ![Cur.a] = "live"]
        /\ Advance
        /\ UNCHANGED <<metavars, gridvars, colvars, srcvars, shvars, progvars,
                       glvars, cbvars,
                 histvars, dvars, priovars>>
     \/ Throw("FileError")

\* ttype_count = read_csv_file<TerrainType>(&terrain_types, ...)
ReadTerrainMeta ==
  /\ At("read_terrain_meta")
  /\ \/ /\ \E n \in 0..MaxTType : ttype_count' = n
        /\ Advance
        /\ UNCHANGED <<texvars, bmode_count, gridvars, colvars, srcvars, shvars,
                       progvars, glvars, cbvars,
                 histvars, dvars, priovars>>
     \/ Throw("FileError")

\* bmode_count = read_csv_file<BlendingMode>(&blending_modes, ...)
ReadBlendingMeta ==
  /\ At("read_blending_meta")
  /\ \/ /\ \E n \in (MaxBMode - 2)..MaxBMode : bmode_count' = n
        /\ Advance
        /\ UNCHANGED <<texvars, ttype_count, gridvars, colvars, srcvars, shvars,
                       progvars, glvars, cbvars,
                 histvars, dvars, priovars>>
     \/ Throw("FileError")

\* insertion that puts a new id before the ids of equal priority
RECURSIVE InsertByPriorityBeforeEqual(_, _, _)
InsertByPriorityBeforeEqual(list, id, prio) ==
  IF list = <<>> THEN <<id>>
  ELSE IF prio[Head(list) + 1] > prio[id + 1]
         THEN <<Head(list)>> \o InsertByPriorityBeforeEqual(Tail(list), id, prio)
         ELSE <<id>> \o list

\* one step of the stable sort: id goes behind every id whose blend_priority
\* is greater or equal
RECURSIVE InsertByPriority(_, _, _)
InsertByPriority(list, id, prio) ==
  IF list = <<>> THEN <<id>>
  ELSE IF prio[Head(list) + 1] >= prio[id + 1]
         THEN <<Head(list)>> \o InsertByPriority(Tail(list), id, prio)
         ELSE <<id>> \o list

\* the ids 0..k-1 of the table, stably sorted by descending blend_priority
RECURSIVE SortedPrefix(_, _)
SortedPrefix(prio, k) ==
  IF k = 0 THEN <<>>
  ELSE InsertByPriority(SortedPrefix(prio, k - 1), k - 1, prio)

\* the Blend Priority Resolver: the whole table, sorted
PriorityOrdering(prio) == SortedPrefix(prio, Len(prio))

\* terrain = new Terrain(20, ttype_count, terrain_types, bmode_count, blending_modes);
\* the constructor takes the table and derives the priority ordering from it
NewTerrain ==
  /\ At("new_terrain")
  /\ terrain' = TRUE
  /\ tiles' = [c \in Cells |-> Unset]
  /\ terrain_priority_list' = PriorityOrdering(blend_priority)
  /\ Advance
  /\ UNCHANGED <<texvars, metavars, pos, colvars, srcvars, shvars, progvars,
                 glvars, cbvars, histvars, dvars, blend_priority>>

\* coord::tile pos = {0, 0}
PosInit ==
  /\ At("pos_init")
  /\ pos' = <<0, 0>>
  /\ Advance
  /\ UNCHANGED <<texvars, metavars, terrain, tiles, colvars, srcvars, shvars,
                 progvars, glvars, cbvars,
                 histvars, dvars, priovars>>

\* the two loops nested the other way round: pos.ne runs fastest
NextPosColumnMajor(p) ==
  IF p[1] + 1 < TerrainSize THEN <<p[1] + 1, p[2]>>
  ELSE IF p[2] + 1 < TerrainSize THEN <<0, p[2] + 1>>
  ELSE <<p[1] + 1, p[2] + 1>>

\* the inner loop restarting at pos.se = 1 instead of 0
NextPosSkipsFirstColumn(p) ==
  IF p[2] + 1 < TerrainSize THEN <<p[1], p[2] + 1>>
  ELSE IF p[1] + 1 < TerrainSize THEN <<p[1] + 1, 1>>
  ELSE <<p[1] + 1, p[2] + 1>>

\* the loop headers: pos.se++, and at the end of a row pos.ne++ and pos.se = 0
NextPos(p) ==
  IF p[2] + 1 < TerrainSize THEN <<p[1], p[2] + 1>>
  ELSE IF p[1] + 1 < TerrainSize THEN <<p[1] + 1, 0>>
  ELSE <<p[1] + 1, p[2] + 1>>

\* the id read with row and column swapped: terrain_data[pos.se][pos.ne]
TexIdTransposed(p) == terrain_data[p[2] + 1][p[1] + 1]

\* int texid = terrain_data[pos.ne][pos.se]
TexId(p) == terrain_data[p[1] + 1][p[2] + 1]

\* one pass of the loop body: texid = terrain_data[ne][se]; set_tile(pos, texid)
SetTiles ==
  /\ At("set_tiles")
  /\ pos[1] < TerrainSize
  /\ LET texid == TexId(pos)
         r     == set_tile(tiles, ttype_count, pos, texid)
     IN  IF r.ok
           THEN /\ tiles' = r.grid
                /\ sweep_calls' = sweep_calls + 1
                /\ pos' = NextPos(pos)
                /\ IF NextPos(pos)[1] < TerrainSize
                     THEN UNCHANGED ctl
                     ELSE Advance
                /\ UNCHANGED <<texvars, metavars, terrain, colvars, srcvars,
                               shvars, progvars, glvars, cbvars,
                               buffer_deletes, dvars, priovars>>
           ELSE Throw("InvalidTerrainId")

\* pcolor_count = read_csv_file<player_color_line>(&player_color_file, ...)
ReadPalette ==
  /\ At("read_palette")
  /\ \/ /\ \E f \in PaletteFiles :
             /\ player_color_file' = f
             /\ pcolor_count' = Len(f)
        /\ Advance
        /\ UNCHANGED <<texvars, metavars, gridvars, colorbuf, playercolors,
                       srcvars, shvars, progvars, glvars, cbvars,
                 histvars, dvars, priovars>>
     \/ Throw("FileError")

\* playercolors = new GLfloat[pcolor_count*4]
NewColors ==
  /\ At("new_colors")
  /\ colorbuf' = "live"
  /\ playercolors' = [k \in 1..(pcolor_count * 4) |-> <<-1, 1>>]
  /\ Advance
  /\ UNCHANGED <<texvars, metavars, gridvars, player_color_file, pcolor_count,
                 srcvars, shvars, progvars, glvars, cbvars,
                 histvars, dvars, priovars>>

\* line->r / 255.0: the quotient, kept as <<numerator, denominator>>
Normalized(channel) == <<channel, ChannelMax>>

\* the conversion loop: playercolors[i*4 + c] from player_color_file[i]
Converted(file, count) ==
  [k \in 1..(count * 4) |->
     LET i    == (k - 1) \div 4
         c    == (k - 1) % 4
         line == file[i + 1]
     IN  Normalized(CASE c = 0 -> line.r
                      [] c = 1 -> line.g
                      [] c = 2 -> line.b
                      [] c = 3 -> line.a)]

\* for (size_t i = 0; i < pcolor_count; i++) { ... }
ConvertColors ==
  /\ At("convert_colors")
  /\ playercolors' = Converted(player_color_file, pcolor_count)
  /\ Advance
  /\ UNCHANGED <<texvars, metavars, gridvars, player_color_file, pcolor_count,
                 colorbuf, srcvars, shvars, progvars, glvars, cbvars,
                 histvars, dvars, priovars>>

\* char *code = util::read_whole_file(...)
ReadSource ==
  /\ At("read_source")
  /\ \/ /\ sources' = [sources EXCEPT ![Cur.a] = "live"]
        /\ Advance
        /\ UNCHANGED <<texvars, metavars, gridvars, colvars, shvars, progvars,
                       glvars, cbvars,
                 histvars, dvars, priovars>>
     \/ Throw("FileError")

\* auto unit = new shader::Shader(stage, code)
NewShader ==
  /\ At("new_shader")
  /\ \/ /\ shaders' = [shaders EXCEPT ![Cur.a] = "live"]
        /\ Advance
        /\ UNCHANGED <<texvars, metavars, gridvars, colvars, srcvars,
                       shader_deletes, progvars, glvars, cbvars,
                 histvars, dvars, priovars>>
     \/ Throw("CompileError")

\* delete[] code
DeleteSource ==
  /\ At("delete_source")
  /\ sources' = [sources EXCEPT ![Cur.a] = "deleted"]
  /\ buffer_deletes' = [buffer_deletes EXCEPT ![Cur.a] = @ + 1]
  /\ Advance
  /\ UNCHANGED <<texvars, metavars, gridvars, colvars, shvars, progvars,
                 glvars, cbvars, sweep_calls, dvars, priovars>>

\* program = new shader::Program(vert, frag)
NewProgram ==
  /\ At("new_program")
  /\ programs' = [programs EXCEPT ![Cur.a] = Cur.b]
  /\ Advance
  /\ UNCHANGED <<texvars, metavars, gridvars, colvars, srcvars, shvars, linked,
                 handles, glvars, cbvars,
                 histvars, dvars, priovars>>

\* program->link()
Link ==
  /\ At("link")
  /\ \/ /\ linked' = [linked EXCEPT ![Cur.a] = TRUE]
        /\ Advance
        /\ UNCHANGED <<texvars, metavars, gridvars, colvars, srcvars, shvars,
                       programs, handles, glvars, cbvars,
                 histvars, dvars, priovars>>
     \/ Throw("LinkError")

\* handle = program->get_uniform_id(name) / get_attribute_id(name)
GetId ==
  /\ At("get_id")
  /\ \/ /\ handles' = [handles EXCEPT ![Cur.b] = Cur.a]
        /\ Advance
        /\ UNCHANGED <<texvars, metavars, gridvars, colvars, srcvars, shvars,
                       programs, linked, glvars, cbvars,
                 histvars, dvars, priovars>>
     \/ Throw("UnresolvedName")

\* program->use()
Use ==
  /\ At("use")
  /\ current' = Cur.a
  /\ Advance
  /\ UNCHANGED <<texvars, metavars, gridvars, colvars, srcvars, shvars, progvars,
                 uploads, color_table, cbvars,
                 histvars, dvars, priovars>>

\* program->stopusing()
StopUsing ==
  /\ At("stopusing")
  /\ current' = "none"
  /\ Advance
  /\ UNCHANGED <<texvars, metavars, gridvars, colvars, srcvars, shvars, progvars,
                 uploads, color_table, cbvars,
                 histvars, dvars, priovars>>

\* a glUniform* call: it writes to the program in use
Upload(h, v) == [handle |-> h, resolved |-> handles[h], target |-> current, value |-> v]

\* glUniform1i(handle, v); glUniform1f(handle, v)
Uniform ==
  /\ At("uniform")
  /\ uploads' = uploads \cup {Upload(Cur.a, Cur.b)}
  /\ Advance
  /\ UNCHANGED <<texvars, metavars, gridvars, colvars, srcvars, shvars, progvars,
                 current, color_table, cbvars,
                 histvars, dvars, priovars>>

\* glUniform4fv(player_color_var, 64, playercolors); with fewer than 256 floats
\* in the buffer the read runs past its end: garbage, or the process dies
UniformColors ==
  /\ At("uniform_colors")
  /\ \/ /\ \E g \in Garbage :
             color_table' = uniform4fv(PlayerColorSlots, playercolors, g)
        /\ uploads' = uploads \cup {Upload(Cur.a, <<PlayerColorSlots>>)}
        /\ Advance
        /\ UNCHANGED <<texvars, metavars, gridvars, colvars, srcvars, shvars,
                       progvars, current, cbvars,
                 histvars, dvars, priovars>>
     \/ /\ Len(playercolors) < 4 * PlayerColorSlots
        /\ Throw("Segfault")

\* delete[] playercolors
DeleteColors ==
  /\ At("delete_colors")
  /\ colorbuf' = "deleted"
  /\ buffer_deletes' = [buffer_deletes EXCEPT !["playercolors"] = @ + 1]
  /\ Advance
  /\ UNCHANGED <<texvars, metavars, gridvars, player_color_file, pcolor_count,
                 playercolors, srcvars, shvars, progvars, glvars, cbvars,
                 sweep_calls, dvars, priovars>>

\* delete unit
DeleteShader ==
  /\ At("delete_shader")
  /\ shaders' = [shaders EXCEPT ![Cur.a] = "deleted"]
  /\ shader_deletes' = [shader_deletes EXCEPT ![Cur.a] = @ + 1]
  /\ Advance
  /\ UNCHANGED <<texvars, metavars, gridvars, colvars, srcvars, progvars, glvars,
                 cbvars,
                 histvars, dvars, priovars>>

\* engine::callbacks::on_*.push_back(handler)
PushBack ==
  /\ At("push_back")
  /\ callbacks' = [callbacks EXCEPT ![Cur.a] = @ + 1]
  /\ Advance
  /\ UNCHANGED <<texvars, metavars, gridvars, colvars, srcvars, shvars, progvars,
                 glvars,
                 histvars, dvars, priovars>>

(* ---------------------------------------------------------------------- *)
(* destroy()                                                              *)
(* ---------------------------------------------------------------------- *)

\* destroy() with the programs deleted before the standalone textures
DestroyCodeProgramsFirst ==
  << Ins("delete_program", "texture_shader",   "", 202),
     Ins("delete_program", "teamcolor_shader", "", 203),
     Ins("delete_program", "alphamask_shader", "", 204),
     Ins("delete_texture", "gaben",            "", 199),
     Ins("delete_texture", "university",       "", 201),
     Ins("delete_terrain_textures",  "", "", 206),
     Ins("delete_blending_textures", "", "", 209),
     Ins("delete_priority_list",     "", "", 212) >>

\* the body of destroy(), statement by statement
DestroyCode ==
  << Ins("delete_texture", "gaben",            "", 199),
     Ins("delete_texture", "university",       "", 201),
     Ins("delete_program", "texture_shader",   "", 202),
     Ins("delete_program", "teamcolor_shader", "", 203),
     Ins("delete_program", "alphamask_shader", "", 204),
     Ins("delete_terrain_textures",  "", "", 206),
     Ins("delete_blending_textures", "", "", 209),
     Ins("delete_priority_list",     "", "", 212) >>

\* the statement of destroy() at the program counter is an `op`
AtDestroy(op) ==
  status = "destroying" /\ pc \in DOMAIN DestroyCode /\ DestroyCode[pc].op = op

CurDestroy == DestroyCode[pc]

\* fall through to the next statement; after the last one destroy() returns
AdvanceDestroy ==
  /\ pc' = pc + 1
  /\ status' = IF pc + 1 > Len(DestroyCode) THEN "destroyed" ELSE "destroying"
  /\ error' = error

\* one more entry in the log of what destroy() has deleted
Released(what, n) == Append(released, [what |-> what, n |-> n])

\* a delete through a pointer read past the end of its array kills the process
Crash ==
  /\ status' = "crashed"
  /\ error' = "Segfault"
  /\ pc' = pc
  /\ UNCHANGED <<texvars, metavars, gridvars, colvars, srcvars, shvars, progvars,
                 glvars, cbvars, histvars, released, priovars>>

\* the values the global terrain_texture_count may hold when destroy() reads
\* it: init() never writes it
TerrainTextureCounts(count) == {0} \cup {n \in (count - 1)..(count + 1) : n >= 0}

\* the frame loop has stopped: destroy() is called after a completed init()
DestroyCall ==
  /\ status = "done"
  /\ status' = "destroying"
  /\ pc' = 1
  /\ error' = error
  /\ UNCHANGED <<texvars, metavars, gridvars, colvars, srcvars, shvars, progvars,
                 glvars, cbvars, histvars, dvars, priovars>>

\* delete gaben; delete university
DeleteTexture ==
  /\ AtDestroy("delete_texture")
  /\ textures' = [textures EXCEPT ![CurDestroy.a] = "deleted"]
  /\ released' = Released(CurDestroy.a, 1)
  /\ AdvanceDestroy
  /\ UNCHANGED <<metavars, gridvars, colvars, srcvars, shvars, progvars, glvars,
                 cbvars, histvars, terrain_texture_count, priovars>>

\* delete texture_shader::program; ... teamcolor ...; ... alphamask ...
DeleteProgram ==
  /\ AtDestroy("delete_program")
  /\ released' = Released(CurDestroy.a, 1)
  /\ AdvanceDestroy
  /\ UNCHANGED <<texvars, metavars, gridvars, colvars, srcvars, shvars, progvars,
                 glvars, cbvars, histvars, terrain_texture_count, priovars>>

\* for (i = 0; i < terrain_texture_count; i++) delete terrain_textures[i];
\* the array holds one texture per loaded terrain type
DeleteTerrainTextures ==
  /\ AtDestroy("delete_terrain_textures")
  /\ \E n \in TerrainTextureCounts(ttype_count) :
       /\ terrain_texture_count' = n
       /\ \/ /\ released' = Released("terrain_textures", n)
             /\ AdvanceDestroy
             /\ UNCHANGED <<texvars, metavars, gridvars, colvars, srcvars, shvars,
                            progvars, glvars, cbvars, histvars, priovars>>
          \/ /\ n > ttype_count
             /\ Crash

\* for (i = 0; i < blend_mode_count; i++) delete blending_textures[i];
\* the array holds one texture per loaded blending mode
DeleteBlendingTextures ==
  /\ AtDestroy("delete_blending_textures")
  /\ \/ /\ released' = Released("blending_textures", blend_mode_count)
        /\ AdvanceDestroy
        /\ UNCHANGED <<texvars, metavars, gridvars, colvars, srcvars, shvars,
                       progvars, glvars, cbvars, histvars, terrain_texture_count,
                       priovars>>
     \/ /\ blend_mode_count > bmode_count
        /\ Crash
        /\ UNCHANGED terrain_texture_count

\* delete[] terrain_priority_list
DeletePriorityList ==
  /\ AtDestroy("delete_priority_list")
  /\ released' = Released("terrain_priority_list", 1)
  /\ terrain_priority_list' = <<>>
  /\ AdvanceDestroy
  /\ UNCHANGED <<texvars, metavars, gridvars, colvars, srcvars, shvars, progvars,
                 glvars, cbvars, histvars, terrain_texture_count, blend_priority>>

Next ==
  \/ DestroyCall \/ DeleteTexture \/ DeleteProgram \/ DeleteTerrainTextures
  \/ DeleteBlendingTextures \/ DeletePriorityList
  \/ NewTexture \/ ReadTerrainMeta \/ ReadBlendingMeta \/ NewTerrain \/ PosInit
  \/ SetTiles \/ ReadPalette \/ NewColors \/ ConvertColors
  \/ ReadSource \/ NewShader \/ DeleteSource
  \/ NewProgram \/ Link \/ GetId \/ Use \/ Uniform \/ UniformColors \/ StopUsing
  \/ DeleteColors \/ DeleteShader \/ PushBack

Spec == Init /\ [][Next]_vars
(* ---------------------------------------------------------------------- *)
(* set_tile on its own: any position, any id                              *)
(* ---------------------------------------------------------------------- *)

\* positions set_tile is probed at
ProbeCells == {<<0, 0>>, <<5, 2>>}

\* ids set_tile is probed with: below the table, in it, and past its end
ProbeIds == {-1, 0, 7, 20, MaxTType, MaxTType + 1}

\* init() about to enter the loop over terrain_data: the grid is fresh
InitSetTile ==
  /\ pc = Len(TextureCode \o MetaCode) + 3
  /\ status = "running"
  /\ error = ""
  /\ textures = [t \in Textures |-> "live"]
  /\ ttype_count \in 0..MaxTType
  /\ bmode_count = blend_mode_count
  /\ terrain = TRUE
  /\ tiles = [c \in Cells |-> Unset]
  /\ pos = <<0, 0>>
  /\ player_color_file = <<>>
  /\ pcolor_count = 0
  /\ colorbuf = "none"
  /\ playercolors = <<>>
  /\ sources = [u \in ShaderUnits |-> "none"]
  /\ shaders = [u \in ShaderUnits |-> "none"]
  /\ shader_deletes = [u \in ShaderUnits |-> 0]
  /\ programs = [p \in Programs |-> <<>>]
  /\ linked = [p \in Programs |-> FALSE]
  /\ handles = [h \in Handles |-> "unset"]
  /\ current = "none"
  /\ uploads = {}
  /\ color_table = <<>>
  /\ callbacks = [r \in CallbackRoles |-> 0]
  /\ sweep_calls = 0
  /\ buffer_deletes = [b \in Buffers |-> 0]
  /\ released = <<>>
  /\ terrain_texture_count = -1
  /\ blend_priority = <<>>
  /\ terrain_priority_list = <<>>

\* terrain->set_tile(p, id); error holds the outcome of the last call
SetTileCall(p, id) ==
  /\ terrain
  /\ LET r == set_tile(tiles, ttype_count, p, id)
     IN  /\ tiles' = r.grid
         /\ error' = IF r.ok THEN "" ELSE "InvalidTerrainId"
  /\ pos' = p
  /\ UNCHANGED <<pc, status, terrain, texvars, metavars, colvars, srcvars, shvars,
                 progvars, glvars, cbvars,
                 histvars, dvars, priovars>>

SetTileAny == \E p \in ProbeCells, id \in ProbeIds : SetTileCall(p, id)

SpecSetTile == InitSetTile /\ [][SetTileAny]_vars

(* ---------------------------------------------------------------------- *)
(* Program life cycle, read off the state                                 *)
(* ---------------------------------------------------------------------- *)

Created(p) == programs[p] # <<>>

\* every handle variable of p holds a location of p
Resolved(p) == \A h \in Handles : OwnerOf(h) = p => handles[h] = p

\* every constant of p has been uploaded to p
Seeded(p) ==
  \A h \in SeedsOf(p) : \E u \in uploads : u.handle = h /\ u.target = p

ProgState(p) ==
  IF ~Created(p) THEN "None"
  ELSE IF ~linked[p] THEN "Compiled"
  ELSE IF ~Resolved(p) THEN "Linked"
  ELSE IF ~Seeded(p) THEN "BindingsResolved"
  ELSE IF current = p THEN "ConstantsSeeded"
  ELSE "Active"

(* ---------------------------------------------------------------------- *)
(* C1: the steps of init() in order                                       *)
(* ---------------------------------------------------------------------- *)

TexturesStarted  == \E t \in Textures : textures[t] # "none"
TexturesFinished == \A t \in Textures : textures[t] # "none"
MetaStarted      == ttype_count >= 0 \/ bmode_count >= 0
MetaFinished     == ttype_count >= 0 /\ bmode_count >= 0
GridStarted      == terrain
GridFinished     == terrain /\ \A c \in Cells : tiles[c] # Unset
ColorsStarted    == colorbuf # "none" \/ player_color_file # <<>>
ColorsFinished   ==
  /\ colorbuf # "none"
  /\ pcolor_count = Len(player_color_file)
  /\ playercolors = Converted(player_color_file, pcolor_count)
ShadersStarted   ==
  \/ \E u \in ShaderUnits : sources[u] # "none" \/ shaders[u] # "none"
  \/ \E p \in Programs : Created(p)
ShadersFinished  ==
  /\ \A u \in ShaderUnits : sources[u] = "deleted" /\ shaders[u] = "deleted"
  /\ \A p \in Programs : ProgState(p) = "Active"
CallbacksStarted  == \E r \in CallbackRoles : callbacks[r] > 0
CallbacksFinished == \A r \in CallbackRoles : callbacks[r] = 1

\* C1: in every run of init() a step starts only when the step before it has
\* finished, in the order standalone textures, terrain and blend metadata,
\* terrain grid and tile sweep, player colors, shader assembly, callbacks; a
\* run that completes has finished all six.
C1_InitOrder ==
  /\ MetaStarted => TexturesFinished
  /\ GridStarted => MetaFinished
  /\ ColorsStarted => GridFinished
  /\ ShadersStarted => ColorsFinished
  /\ CallbacksStarted => ShadersFinished
  /\ status = "done" =>
       /\ TexturesFinished /\ MetaFinished /\ GridFinished
       /\ ColorsFinished /\ ShadersFinished /\ CallbacksFinished

C1_Witness == status = "done" /\ CallbacksFinished /\ ShadersFinished

(* ---------------------------------------------------------------------- *)
(* C2: the grid after the sweep                                           *)
(* ---------------------------------------------------------------------- *)

\* the largest id in terrain_data
MaxTerrainId ==
  CHOOSE m \in {terrain_data[i][j] : i \in 1..TerrainSize, j \in 1..TerrainSize} :
    \A i \in 1..TerrainSize, j \in 1..TerrainSize : terrain_data[i][j] <= m

\* every id of terrain_data is in the loaded terrain-type table
AllIdsLoaded == MaxTerrainId < ttype_count

\* the loop over terrain_data has run to its end
SweepDone == terrain /\ pos[1] >= TerrainSize

\* C2: once the tile sweep has run to its end over a terrain_data whose ids
\* are all in the loaded table, every cell of the grid holds an id of the
\* loaded table; no cell is left unset.
C2_GridValidAfterSweep ==
  (SweepDone /\ AllIdsLoaded) =>
     \A c \in Cells : tiles[c] # Unset /\ tiles[c] \in 0..(ttype_count - 1)

C2_Witness == SweepDone /\ AllIdsLoaded /\ tiles[0] = 7 /\ status = "running"

(* ---------------------------------------------------------------------- *)
(* C3: set_tile with an id outside the table                              *)
(* ---------------------------------------------------------------------- *)

\* C3: for every position and every id outside [0, ttype_count), the call
\* set_tile(position, id) fails with InvalidTerrainId and leaves every cell
\* of the grid as it was.
C3_InvalidIdRejected ==
  [][\A p \in ProbeCells, id \in ProbeIds :
       (id \notin 0..(ttype_count - 1) /\ SetTileCall(p, id)) =>
          (error' = "InvalidTerrainId" /\ tiles' = tiles)]_vars

C3_Witness ==
  /\ error = "InvalidTerrainId"
  /\ tiles[0] # Unset
  /\ tiles[5 * TerrainSize + 2] # Unset
(* ---------------------------------------------------------------------- *)
(* C4: failure of a step                                                  *)
(* ---------------------------------------------------------------------- *)

\* a palette line whose index is not a slot of the 64-slot table
IndexOutOfRange ==
  \E i \in 1..Len(player_color_file) : player_color_file[i].idx >= PlayerColorSlots

NoCallbacks == \A r \in CallbackRoles : callbacks[r] = 0

\* an error raised by a statement ends init(): no statement runs after it
RaisedErrorEndsInit == [][status # "failed"]_vars

\* C4: if a step of init() fails (a file missing or malformed, a tile id or
\* a player-color index out of range, a compile or link failure, a name not
\* resolved) no later step runs: no callback is registered, and after a
\* player-color failure no shader step has begun and no program is Active.
C4_NothingRunsAfterFailure ==
  /\ status = "failed" => NoCallbacks
  /\ IndexOutOfRange =>
       /\ ~ShadersStarted
       /\ \A p \in Programs : ProgState(p) # "Active"
       /\ NoCallbacks

(* ---------------------------------------------------------------------- *)
(* C5: a shader source that does not compile                              *)
(* ---------------------------------------------------------------------- *)

\* C5: if one of the five shader sources fails to compile, no program is
\* Active and every shader compiled before the failure has been released.
C5_CompileFailureReleasesShaders ==
  (status = "failed" /\ error = "CompileError") =>
     /\ \A p \in Programs : ProgState(p) # "Active"
     /\ \A u \in ShaderUnits : shaders[u] # "live"

(* ---------------------------------------------------------------------- *)
(* C6: release of the shaders                                             *)
(* ---------------------------------------------------------------------- *)

\* C6: each of the five shaders is released at most once, and only when
\* every program built from it is linked (plaintexture_vert only when both
\* texture_shader and teamcolor_shader are); when init() returns, each has
\* been released exactly once and none is still held.
C6_ShadersReleasedAfterLink ==
  /\ \A u \in ShaderUnits : shader_deletes[u] <= 1
  /\ \A u \in ShaderUnits :
       shaders[u] = "deleted" =>
         \A p \in Programs : u \in StagesOf(p) => linked[p]
  /\ status = "done" =>
       \A u \in ShaderUnits : shaders[u] = "deleted" /\ shader_deletes[u] = 1

C6_Witness ==
  /\ status = "done"
  /\ shaders["plaintexture_vert"] = "deleted"
  /\ linked["texture_shader"] /\ linked["teamcolor_shader"]

(* ---------------------------------------------------------------------- *)
(* C7: uploads go to the program in use                                   *)
(* ---------------------------------------------------------------------- *)

\* C7: every constant uploaded by init() is written while the program that
\* owns the uniform is the program in use; a program is in use only between
\* its resolve step and its stopusing(), and none is in use when init()
\* returns.
C7_UploadsToOwner ==
  /\ \A u \in uploads : u.target = OwnerOf(u.handle)
  /\ color_table # <<>> =>
       \E u \in uploads : u.handle = "teamcolor_shader::player_color_var"
                          /\ u.target = "teamcolor_shader"
  /\ current # "none" =>
       ProgState(current) \in {"BindingsResolved", "ConstantsSeeded"}
  /\ status = "done" => current = "none"

C7_Witness ==
  /\ status = "done"
  /\ color_table # <<>>
  /\ \A p \in Programs : Seeded(p)

(* ---------------------------------------------------------------------- *)
(* C8: the life cycle of a program                                        *)
(* ---------------------------------------------------------------------- *)

\* the steps of the life cycle
LifeCycleSteps ==
  {<<"None", "Compiled">>, <<"Compiled", "Linked">>,
   <<"Linked", "BindingsResolved">>, <<"BindingsResolved", "ConstantsSeeded">>,
   <<"ConstantsSeeded", "Active">>}

\* C8: each program goes None, Compiled (created from two compiled stages),
\* Linked, BindingsResolved, ConstantsSeeded, Active, one step at a time;
\* no handle is resolved against a program that is not linked, no uniform is
\* uploaded through a handle that is not resolved, and when init() returns
\* all three programs are Active.
C8_ProgramLifeCycle ==
  /\ [](/\ \A h \in Handles : handles[h] # "unset" => linked[handles[h]]
        /\ \A u \in uploads : u.resolved # "unset"
        /\ \A p \in Programs : linked[p] => Created(p)
        /\ status = "done" => \A p \in Programs : ProgState(p) = "Active")
  /\ [][\A p \in Programs :
          /\ ProgState(p)' # ProgState(p) =>
               <<ProgState(p), ProgState(p)'>> \in LifeCycleSteps
          /\ (Created(p)' /\ ~Created(p)) =>
               \A u \in StagesOf(p) : shaders[u] = "live"]_vars

C8_Witness ==
  /\ status = "done"
  /\ \A p \in Programs : ProgState(p) = "Active"
  /\ \A h \in Handles : handles[h] = OwnerOf(h)

(* ---------------------------------------------------------------------- *)
(* C9, C10: the player-color table                                        *)
(* ---------------------------------------------------------------------- *)

\* (r/255, g/255, b/255, a/255) of a palette line
NormalizedLine(line) ==
  <<Normalized(line.r), Normalized(line.g), Normalized(line.b), Normalized(line.a)>>

\* no two lines of the palette carry the same index
DistinctIndexes ==
  \A i, j \in 1..Len(player_color_file) :
    player_color_file[i].idx = player_color_file[j].idx => i = j

\* the upload reads 64 slots: with 64 lines or more it stays inside the buffer
UploadInsideBuffer == pcolor_count >= PlayerColorSlots

\* C9: for every loaded palette line with index k and channels (r,g,b,a),
\* the uploaded table holds (r/255, g/255, b/255, a/255) at slot k: the slot
\* is the line's index field, not the line's position in the file.  (Stated
\* for palettes of distinct indexes whose upload stays inside the buffer.)
C9_SlotIsIndexField ==
  (color_table # <<>> /\ DistinctIndexes /\ UploadInsideBuffer) =>
     \A i \in 1..Len(player_color_file) :
       LET line == player_color_file[i]
       IN  line.idx < PlayerColorSlots =>
             color_table[line.idx + 1] = NormalizedLine(line)

\* C10: a palette line with an index of 64 or more is fatal: init() does not
\* complete and no player-color table is uploaded.  (Stated for palettes
\* whose upload stays inside the buffer.)
C10_IndexOutOfRangeIsFatal ==
  (IndexOutOfRange /\ UploadInsideBuffer) =>
     (status # "done" /\ color_table = <<>>)
(* ---------------------------------------------------------------------- *)
(* The priority ordering on its own: any table of blend priorities        *)
(* ---------------------------------------------------------------------- *)

\* the blend_priority columns drawn: up to MaxPrioTypes types
PriorityColumns == UNION {[1..n -> 0..MaxPrio] : n \in 0..MaxPrioTypes}

\* init() about to construct the Terrain from a loaded terrain-type table
InitPriority ==
  /\ pc = Len(TextureCode \o MetaCode) + 1
  /\ status = "running"
  /\ error = ""
  /\ textures = [t \in Textures |-> "live"]
  /\ blend_priority \in PriorityColumns
  /\ ttype_count = Len(blend_priority)
  /\ bmode_count = blend_mode_count
  /\ terrain = FALSE
  /\ tiles = [c \in Cells |-> Unset]
  /\ pos = <<0, 0>>
  /\ player_color_file = <<>>
  /\ pcolor_count = 0
  /\ colorbuf = "none"
  /\ playercolors = <<>>
  /\ sources = [u \in ShaderUnits |-> "none"]
  /\ shaders = [u \in ShaderUnits |-> "none"]
  /\ shader_deletes = [u \in ShaderUnits |-> 0]
  /\ programs = [p \in Programs |-> <<>>]
  /\ linked = [p \in Programs |-> FALSE]
  /\ handles = [h \in Handles |-> "unset"]
  /\ current = "none"
  /\ uploads = {}
  /\ color_table = <<>>
  /\ callbacks = [r \in CallbackRoles |-> 0]
  /\ sweep_calls = 0
  /\ buffer_deletes = [b \in Buffers |-> 0]
  /\ released = <<>>
  /\ terrain_texture_count = -1
  /\ terrain_priority_list = <<>>

SpecPriority == InitPriority /\ [][NewTerrain]_vars

(* ---------------------------------------------------------------------- *)
(* C11: how many textures destroy() releases                              *)
(* ---------------------------------------------------------------------- *)

\* how many entries of an array destroy() has deleted
ReleasedCount(what) ==
  LET S == {i \in DOMAIN released : released[i].what = what}
  IN  IF S = {} THEN 0 ELSE released[CHOOSE i \in S : TRUE].n

\* C11: after a successful init() and destroy(), destroy() has released
\* exactly as many terrain textures as the terrain metadata load returned
\* and exactly as many blend textures as the blend metadata load returned.
C11_ReleasesLoadedCounts ==
  status = "destroyed" =>
     /\ ReleasedCount("terrain_textures") = ttype_count
     /\ ReleasedCount("blending_textures") = bmode_count

(* ---------------------------------------------------------------------- *)
(* C12: destroy() releases what init() acquired                           *)
(* ---------------------------------------------------------------------- *)

\* the long-lived resources init() has acquired
Acquired ==
  {t \in Textures : textures[t] # "none"}
    \cup {p \in Programs : Created(p)}
    \cup (IF terrain THEN {"terrain"} ELSE {})
    \cup (IF ttype_count >= 0 THEN {"terrain_types"} ELSE {})
    \cup (IF bmode_count >= 0 THEN {"blending_modes"} ELSE {})

\* the texture arrays and the priority list, filled by the load step
LoadedArrays == {"terrain_textures", "blending_textures", "terrain_priority_list"}

\* C12: after a successful init() and destroy(), each long-lived resource
\* init() acquired (the two textures, the terrain grid, the three programs,
\* the metadata tables) has been released exactly once, and destroy() has
\* released nothing that init() did not acquire.
C12_ReleasesWhatInitAcquired ==
  status = "destroyed" =>
     /\ \A a \in Acquired :
          Cardinality({i \in DOMAIN released : released[i].what = a}) = 1
     /\ \A i \in DOMAIN released :
          released[i].what \in Acquired \cup LoadedArrays

(* ---------------------------------------------------------------------- *)
(* C13: the priority ordering                                             *)
(* ---------------------------------------------------------------------- *)

ReleaseStep(what) ==
  CASE what \in Textures -> 1
    [] what \in Programs -> 2
    [] what \in {"terrain_textures", "blending_textures"} -> 3
    [] what = "terrain_priority_list" -> 4

\* C14: destroy() releases the standalone textures, then the three programs,
\* then the entries of the terrain-texture and blend-texture arrays, then the
\* priority-ordering array; once destroy() has begun to release, no program
\* is in use and no handle or uniform of a program is touched again.
C14_DestroyOrder ==
  /\ [](/\ \A i, j \in DOMAIN released :
             i < j => ReleaseStep(released[i].what) <= ReleaseStep(released[j].what)
        /\ released # <<>> => current = "none"
        /\ status = "destroyed" =>
             {released[i].what : i \in DOMAIN released}
               = Textures \cup Programs \cup LoadedArrays)
  /\ [][released # <<>> =>
          (uploads' = uploads /\ handles' = handles /\ current' = current)]_vars

C14_Witness ==
  /\ status = "destroyed"
  /\ Len(released) = 8
  /\ released[1].what = "gaben"
  /\ released[8].what = "terrain_priority_list"
(* ---------------------------------------------------------------------- *)
(* C15: the grid is the terrain_data table                                *)
(* ---------------------------------------------------------------------- *)

\* the cell of the grid at row i, column j
Cell(i, j) == tiles[i * TerrainSize + j]

\* C15: with every terrain id of the table loaded, after the sweep the cell
\* at (i, j) holds terrain_data[i][j] for every 0 <= i, j < N; the cell (0, 0)
\* holds 7 and the cell (5, 2) holds 20.
C15_GridIsTerrainData ==
  (SweepDone /\ AllIdsLoaded) =>
     /\ \A i, j \in 0..(TerrainSize - 1) : Cell(i, j) = terrain_data[i + 1][j + 1]
     /\ Cell(0, 0) = 7
     /\ Cell(5, 2) = 20

C15_Witness ==
  /\ SweepDone
  /\ AllIdsLoaded
  /\ Cell(5, 2) = 20
  /\ Cell(2, 5) = 7

(* ---------------------------------------------------------------------- *)
(* C16: the sweep calls set_tile once per cell, row by row                *)
(* ---------------------------------------------------------------------- *)

\* C16: the k-th successful set_tile call of the sweep (k from 0) is made for
\* the cell (k div N, k mod N) and writes that cell only; the sweep makes no
\* more than N*N calls and is over after exactly N*N of them.
C16_RowMajorSweep ==
  /\ [](/\ sweep_calls <= TerrainSize * TerrainSize
        /\ SweepDone => sweep_calls = TerrainSize * TerrainSize)
  /\ [][sweep_calls' # sweep_calls =>
          /\ sweep_calls' = sweep_calls + 1
          /\ pos = <<sweep_calls \div TerrainSize, sweep_calls % TerrainSize>>
          /\ \A c \in Cells :
               c # sweep_calls => tiles'[c] = tiles[c]]_vars

C16_Witness ==
  /\ SweepDone
  /\ sweep_calls = TerrainSize * TerrainSize
  /\ status = "done"

(* ---------------------------------------------------------------------- *)
(* C17: the colour upload stays inside the colour buffer                  *)
(* ---------------------------------------------------------------------- *)

\* C17: the upload of the player-colour table reads PlayerColorSlots entries
\* of 4 channels and all of them lie inside the converted buffer, whose
\* length is 4 times the number of palette lines.
C17_UploadReadsInsideBuffer ==
  color_table # <<>> =>
     /\ Len(color_table) = PlayerColorSlots
     /\ Len(playercolors) = 4 * pcolor_count
     /\ 4 * PlayerColorSlots <= Len(playercolors)

(* ---------------------------------------------------------------------- *)
(* C18: the registered handlers                                           *)
(* ---------------------------------------------------------------------- *)

\* C18: each callback role never has more than one handler while the
\* session is active, and after destroy() has returned no handler is
\* registered.
C18_NoHandlerAfterDestroy ==
  /\ \A r \in CallbackRoles : callbacks[r] <= 1
  /\ status = "destroyed" => NoCallbacks


(* ---------------------------------------------------------------------- *)
(* C19: the transient buffers                                             *)
(* ---------------------------------------------------------------------- *)

\* C19: each of the five shader source texts and the converted colour buffer
\* is freed at most once, and exactly once by the time init() returns; a
\* source text is freed only after its shader is compiled and the colour
\* buffer only after the upload; nothing reads a buffer that is not live.
C19_TransientBuffers ==
  /\ [](/\ \A b \in Buffers : buffer_deletes[b] <= 1
        /\ \A u \in ShaderUnits :
             /\ sources[u] = "deleted" <=> buffer_deletes[u] = 1
             /\ sources[u] = "deleted" => shaders[u] # "none"
        /\ colorbuf = "deleted" <=> buffer_deletes["playercolors"] = 1
        /\ colorbuf = "deleted" => color_table # <<>>
        /\ status = "done" => \A b \in Buffers : buffer_deletes[b] = 1)
  /\ [][/\ At("new_shader") => sources[Cur.a] = "live"
        /\ (At("convert_colors") \/ At("uniform_colors")) => colorbuf = "live"]_vars

C19_Witness ==
  /\ status = "done"
  /\ \A b \in Buffers : buffer_deletes[b] = 1
  /\ colorbuf = "deleted"
====
